---- MODULE Spec2Model ----
(***************************************************************************)
(* A model of the chippers CHIP-8 core: the opcode decoder                 *)
(* (core/src/instructions.rs), the machine parts (core/src/core.rs) and    *)
(* the interpreter's step / execute (core/src/interpreter.rs).             *)
(*                                                                         *)
(* A Rust panic (an out-of-bounds index, unwrap() of None, unreachable!(), *)
(* an arithmetic overflow in a build with overflow checks) ends the call   *)
(* that raised it: the model records the panic in the field "panicked" of  *)
(* the interpreter and keeps every write made before it, as unwinding      *)
(* does.                                                                   *)
(***************************************************************************)
EXTENDS Integers, Sequences, FiniteSets, TLC

VARIABLES
    modern,           \* cfg(feature = "modern"): fixed when the crate is built
    overflow_checks,  \* build profile: integer overflow panics (TRUE) or wraps
    program,          \* the bytes handed to Interpreter::new
    interpreter,      \* the Interpreter struct
    index_ideal,      \* history: the index register computed without 16-bit wrap
    steps,            \* history: number of step() calls made
    events,           \* history: number of key transitions made by the driver
    last,             \* history: what the last call did
    event_since_wait, \* history: a key event was recorded after the wait began
    calls,            \* history: number of Call instructions executed
    returns,          \* history: number of Return instructions that did not panic
    initial,          \* history: the interpreter of the initial state
    timer_runs,       \* history: per timer, the decrement() calls since reset()
    opcode,           \* codec: the 16-bit word under decode
    instruction_in,   \* codec: the instruction being encoded
    decoded           \* codec: the result of decode

vars == <<modern, overflow_checks, program, interpreter, index_ideal, steps,
          events, last, event_since_wait, calls, returns, initial, timer_runs,
          opcode, instruction_in, decoded>>

machine_vars == <<program, interpreter, index_ideal, steps, events, last,
                  event_since_wait, calls, returns, initial, timer_runs>>

codec_vars == <<opcode, instruction_in, decoded>>

(***************************************************************************)
(* Bounds of the model.                                                    *)
(***************************************************************************)
MaxSteps == 40
MaxLongSteps == 250
MaxEvents == 3
IndexAdds == 241
MaxOversize == 2
MaxDelayDecrements == 62
MaxSoundDecrements == 2
MaxFill == 15

(***************************************************************************)
(* Program constants.                                                      *)
(***************************************************************************)
RamSize == 4096
ProgramStart == 512
ScreenWidth == 64
ScreenHeight == 32
U8 == 256
U16 == 65536

None == << >>
Some(x) == <<x>>

Byte == 0 .. (U8 - 1)
Nibble == 0 .. 15

(***************************************************************************)
(* Bit operations on bytes.                                                *)
(***************************************************************************)
Pow2(n) == IF n = 0 THEN 1 ELSE IF n = 1 THEN 2 ELSE IF n = 2 THEN 4
           ELSE IF n = 3 THEN 8 ELSE IF n = 4 THEN 16 ELSE IF n = 5 THEN 32
           ELSE IF n = 6 THEN 64 ELSE IF n = 7 THEN 128 ELSE 256

Bit(value, n) == (value \div Pow2(n)) % 2

BitOr(p, q) == IF p + q > 0 THEN 1 ELSE 0
BitAnd(p, q) == p * q
BitXor(p, q) == (p + q) % 2

Or8(v, w) ==
    LET b(n) == BitOr(Bit(v, n), Bit(w, n)) * Pow2(n)
    IN  b(0) + b(1) + b(2) + b(3) + b(4) + b(5) + b(6) + b(7)

And8(v, w) ==
    LET b(n) == BitAnd(Bit(v, n), Bit(w, n)) * Pow2(n)
    IN  b(0) + b(1) + b(2) + b(3) + b(4) + b(5) + b(6) + b(7)

Xor8(v, w) ==
    LET b(n) == BitXor(Bit(v, n), Bit(w, n)) * Pow2(n)
    IN  b(0) + b(1) + b(2) + b(3) + b(4) + b(5) + b(6) + b(7)

(***************************************************************************)
(* instructions.rs: decode.  The match arms are tried in source order; the *)
(* last arm is unreachable!(), a panic.                                    *)
(***************************************************************************)
Unreachable == [variant |-> "unreachable"]

I0(v) == [variant |-> v]
IAddr(v, address) == [variant |-> v, address |-> address]
IRegByte(v, b, byte) == [variant |-> v, register |-> b, byte |-> byte]
IRegReg(v, b, c) == [variant |-> v, register_x |-> b, register_y |-> c]
IReg(v, b) == [variant |-> v, register |-> b]
IShift(v, b, c) ==
    IF modern THEN [variant |-> v, register_x |-> b]
    ELSE [variant |-> v, register_x |-> b, register_y |-> c]
IJumpOffset(address, b) ==
    IF modern THEN [variant |-> "JumpOffset", base_address |-> address, register |-> b]
    ELSE [variant |-> "JumpOffset", base_address |-> address]

\* A wrong mask: the third nibble taken from the low nibble.
nibble_c_unshifted(instruction) == instruction % 16

nibble_a(instruction) == (instruction \div 4096) % 16
nibble_b(instruction) == (instruction \div 256) % 16
nibble_c(instruction) == (instruction \div 16) % 16
nibble_d(instruction) == instruction % 16

\* A wrong mask: 0x00FF instead of 0x0FFF.
low_12_as_low_8(instruction) == instruction % 256

low_12(instruction) == instruction % 4096
low_8(instruction) == instruction % 256

decode(instruction) ==
    LET a == nibble_a(instruction)
        b == nibble_b(instruction)
        c == nibble_c(instruction)
        d == nibble_d(instruction)
        nnn == low_12(instruction)
        kk == low_8(instruction)
    IN  IF a = 0 /\ b = 0 /\ c = 14 /\ d = 0 THEN I0("ClearScreen")
        ELSE IF a = 0 /\ b = 0 /\ c = 14 /\ d = 14 THEN I0("Return")
        ELSE IF a = 0 THEN IAddr("MachineRoutine", nnn)
        ELSE IF a = 1 THEN IAddr("Jump", nnn)
        ELSE IF a = 2 THEN IAddr("Call", nnn)
        ELSE IF a = 3 THEN IRegByte("SkipEqualByte", b, kk)
        ELSE IF a = 4 THEN IRegByte("SkipNotEqualByte", b, kk)
        ELSE IF a = 5 /\ d = 0 THEN IRegReg("SkipEqualVariable", b, c)
        ELSE IF a = 6 THEN IRegByte("SetWithByte", b, kk)
        ELSE IF a = 7 THEN IRegByte("AddWithByte", b, kk)
        ELSE IF a = 8 /\ d = 0 THEN IRegReg("SetWithVariable", b, c)
        ELSE IF a = 8 /\ d = 1 THEN IRegReg("Or", b, c)
        ELSE IF a = 8 /\ d = 2 THEN IRegReg("And", b, c)
        ELSE IF a = 8 /\ d = 3 THEN IRegReg("Xor", b, c)
        ELSE IF a = 8 /\ d = 4 THEN IRegReg("AddWithVariable", b, c)
        ELSE IF a = 8 /\ d = 5 THEN IRegReg("SubWithVariable", b, c)
        ELSE IF a = 8 /\ d = 6 THEN IShift("ShiftRight", b, c)
        ELSE IF a = 8 /\ d = 7 THEN IRegReg("SubWithVariableNot", b, c)
        ELSE IF a = 8 /\ d = 14 THEN IShift("ShiftLeft", b, c)
        ELSE IF a = 9 /\ d = 0 THEN IRegReg("SkipNotEqualVariable", b, c)
        ELSE IF a = 10 THEN IAddr("SetIndexWithAddress", nnn)
        ELSE IF a = 11 THEN IJumpOffset(nnn, b)
        ELSE IF a = 12 THEN IRegByte("RandomAnd", b, kk)
        ELSE IF a = 13 THEN [variant |-> "Draw", register_x |-> b, register_y |-> c, n |-> d]
        ELSE IF a = 14 /\ c = 9 /\ d = 14 THEN IReg("SkipKey", b)
        ELSE IF a = 14 /\ c = 10 /\ d = 1 THEN IReg("SkipNotKey", b)
        ELSE IF a = 15 /\ c = 0 /\ d = 7 THEN IReg("SetVariableWithDelayTimer", b)
        ELSE IF a = 15 /\ c = 0 /\ d = 10 THEN IReg("WaitForKey", b)
        ELSE IF a = 15 /\ c = 1 /\ d = 5 THEN IReg("SetDelayTimer", b)
        ELSE IF a = 15 /\ c = 1 /\ d = 8 THEN IReg("SetSoundTimer", b)
        ELSE IF a = 15 /\ c = 1 /\ d = 14 THEN IReg("AddIndexWithVariable", b)
        ELSE IF a = 15 /\ c = 2 /\ d = 9 THEN IReg("SetIndexWithSpriteAddress", b)
        ELSE IF a = 15 /\ c = 3 /\ d = 3 THEN IReg("StoreDecimalConversion", b)
        ELSE IF a = 15 /\ c = 5 /\ d = 5 THEN [variant |-> "StoreRegisters", up_to_register |-> b]
        ELSE IF a = 15 /\ c = 6 /\ d = 5 THEN [variant |-> "LoadIntoRegisters", up_to_register |-> b]
        ELSE Unreachable

(***************************************************************************)
(* core.rs: Ram.  Memory is the image built by Ram::new and load_program   *)
(* overlaid with the cells written since: the field "ram" of the           *)
(* interpreter holds the written cells only.                               *)
(***************************************************************************)
FONT_DATA ==
    << 240, 144, 144, 144, 240,   32,  96,  32,  32, 112,
       240,  16, 240, 128, 240,  240,  16, 240,  16, 240,
       144, 144, 240,  16,  16,  240, 128, 240, 144, 240,
       240, 128, 240, 144, 240,  240,  16,  32,  64,  64,
       240, 144, 240, 144, 240,  240, 144, 240,  16, 240,
       240, 144, 240, 144, 144,  224, 144, 224, 144, 224,
       240, 128, 128, 128, 240,  224, 144, 144, 144, 224,
       240, 128, 240, 128, 240,  240, 128, 240, 128, 128 >>

\* Ram::new: the font at the start of the buffer, 0 elsewhere.
ram_new(cell) == IF cell < Len(FONT_DATA) THEN FONT_DATA[cell + 1] ELSE 0

\* Ram::load_program: program byte "offset" at 0x200 + offset.
load_program(cell) ==
    IF cell >= ProgramStart /\ cell - ProgramStart < Len(program)
    THEN program[cell - ProgramStart + 1]
    ELSE ram_new(cell)

IndexPanic == "index out of bounds"

Panic(m, message) == [m EXCEPT !.panicked = message]
Panicked(m) == m.panicked # "none"

\* The bounds check of the slice index in Index<u16> / IndexMut<u16>.
ram_in_bounds(index) == index < RamSize

\* Index<u16> for Ram, for an index in bounds.
ram_index(m, index) ==
    IF index \in DOMAIN m.ram THEN m.ram[index] ELSE load_program(index)

\* IndexMut<u16> for Ram followed by the assignment, for an index in bounds.
ram_index_mut(m, index, value) ==
    [m EXCEPT !.ram = (index :> value) @@ @]

(***************************************************************************)
(* core.rs: VariableRegisters, Stack, Screen, Timer.                       *)
(***************************************************************************)
variable_registers_new == [r \in 0 .. 15 |-> 0]

Reg(m, register) == m.variable_registers[register]
SetReg(m, register, value) == [m EXCEPT !.variable_registers[register] = value]

\* A set_vf that leaves the flag as it is.
set_vf_skipped(m) == m

set_vf(m) == [m EXCEPT !.variable_registers[15] = 1]
set_vf_to(m, val) == [m EXCEPT !.variable_registers[15] = val]
clear_vf(m) == [m EXCEPT !.variable_registers[15] = 0]

stack_new == << >>
\* A push at the bottom of the stack.
stack_push_bottom(m, address) == [m EXCEPT !.stack = <<address>> \o @]

stack_push(m, address) == [m EXCEPT !.stack = Append(@, address)]
\* A pop that yields address 0 on an empty stack instead of panicking.
stack_pop_or_default(m) ==
    IF Len(m.stack) = 0
    THEN [m |-> m, address |-> 0]
    ELSE [m |-> [m EXCEPT !.stack = SubSeq(@, 1, Len(@) - 1)],
          address |-> m.stack[Len(m.stack)]]

\* Stack::pop: Vec::pop().unwrap() panics on an empty stack.
stack_pop(m) ==
    IF Len(m.stack) = 0
    THEN [m |-> Panic(m, "called Option::unwrap() on a None value"), address |-> 0]
    ELSE [m |-> [m EXCEPT !.stack = SubSeq(@, 1, Len(@) - 1)],
          address |-> m.stack[Len(m.stack)]]

\* Screen: the set of the indices (y * 64 + x) of the lit pixels.
screen_new == {}
screen_clear(m) == [m EXCEPT !.screen = {}]
pixel_index(x, y) == (y * ScreenWidth) + x
\* A set_pixel that lights the pixel instead of toggling it.
set_pixel_lights(m, x, y) ==
    LET index == pixel_index(x, y)
        collision == index \in m.screen
    IN  [m |-> [m EXCEPT !.screen = @ \cup {index}], collision |-> collision]

\* Screen::set_pixel: toggles the pixel and returns its previous value.
set_pixel(m, x, y) ==
    LET index == pixel_index(x, y)
        collision == index \in m.screen
    IN  [m |-> [m EXCEPT !.screen = IF collision THEN @ \ {index} ELSE @ \cup {index}],
         collision |-> collision]

timer_new == [value |-> 0, state |-> "AboveZero"]

\* A decrement that reaches 0 without the transition of the state.
timer_decrement_without_transition(timer) ==
    IF timer.value = 0 THEN timer ELSE [timer EXCEPT !.value = @ - 1]

\* Timer::decrement
timer_decrement(timer) ==
    IF timer.value = 0 THEN timer
    ELSE IF timer.value = 1 THEN [timer EXCEPT !.value = 0, !.state = "Zero"]
    ELSE [timer EXCEPT !.value = @ - 1]

\* Timer::reset
timer_reset(timer) == [timer EXCEPT !.value = 60]

(***************************************************************************)
(* interpreter.rs: Key, KeyState, InputHandler, Interpreter::new.          *)
(***************************************************************************)
Keys == << "Key0", "Key1", "Key2", "Key3", "Key4", "Key5", "Key6", "Key7",
           "Key8", "Key9", "KeyA", "KeyB", "KeyC", "KeyD", "KeyE", "KeyF" >>

\* impl From<Key> for u8
key_into_u8(key) == (CHOOSE i \in 1 .. 16 : Keys[i] = key) - 1

input_handler_new ==
    [keys_state |-> [k \in 0 .. 15 |-> "NotPressed"],
     waiting |-> None,
     pressed_and_released |-> None]

interpreter_new ==
    [ram |-> << >>,
     variable_registers |-> variable_registers_new,
     index_register |-> 0,
     program_counter |-> ProgramStart,
     stack |-> stack_new,
     screen |-> screen_new,
     delay_timer |-> timer_new,
     sound_timer |-> timer_new,
     input_handler |-> input_handler_new,
     panicked |-> "none"]

\* A load that never fails its bounds check.
load_program_unchecked == TRUE

\* Ram::load_program: self.0[0x200 + offset] is in bounds for every offset of
\* the program.
load_program_in_bounds == ProgramStart + Len(program) <= RamSize

\* Interpreter::new(program): load_program panics on a program that does not
\* fit, and no interpreter is returned.
new ==
    IF load_program_in_bounds THEN interpreter_new
    ELSE Panic(interpreter_new, IndexPanic)

(***************************************************************************)
(* interpreter.rs: draw, fetch_instruction, execute, step.                 *)
(***************************************************************************)
OverflowPanic == "attempt to add with overflow"

\* u16 addition: panics on overflow in a build with overflow checks, wraps
\* otherwise.  value is meaningful only when the result has not panicked.
add_u16(m, x, y) ==
    IF x + y >= U16
    THEN IF overflow_checks
         THEN [m |-> Panic(m, OverflowPanic), value |-> 0]
         ELSE [m |-> m, value |-> (x + y) % U16]
    ELSE [m |-> m, value |-> x + y]

RECURSIVE draw_bits_wrapping(_, _, _, _, _)
\* An inner loop that wraps to column 0 after column 63 instead of stopping.
draw_bits_wrapping(m, sprite_line, x, y, bit_pos) ==
    IF bit_pos >= 8 THEN m
    ELSE LET bit_digit == Bit(sprite_line, 7 - bit_pos)
             set == set_pixel(m, x, y)
             m2 == IF bit_digit # 0
                   THEN IF set.collision THEN set_vf(set.m) ELSE set.m
                   ELSE m
         IN  draw_bits_wrapping(m2, sprite_line, (x + 1) % ScreenWidth, y, bit_pos + 1)

RECURSIVE draw_bits(_, _, _, _, _)
\* The inner loop of draw: for bit_pos in 0..8.
draw_bits(m, sprite_line, x, y, bit_pos) ==
    IF bit_pos >= 8 THEN m
    ELSE LET bit_digit == Bit(sprite_line, 7 - bit_pos)
             set == set_pixel(m, x, y)
             m2 == IF bit_digit # 0
                   THEN IF set.collision THEN set_vf(set.m) ELSE set.m
                   ELSE m
         IN  IF x = ScreenWidth - 1 THEN m2
             ELSE draw_bits(m2, sprite_line, x + 1, y, bit_pos + 1)

RECURSIVE draw_rows(_, _, _, _, _)
\* The outer loop of draw: for sprite_offset in 0..n.
draw_rows(m, initial_x, y, sprite_offset, n) ==
    IF sprite_offset >= n THEN m
    ELSE LET sum == add_u16(m, m.index_register, sprite_offset)
             sprite_address == sum.value
         IN  IF Panicked(sum.m) THEN sum.m
             ELSE IF ~ram_in_bounds(sprite_address) THEN Panic(m, IndexPanic)
             ELSE LET sprite_line == ram_index(m, sprite_address)
                      m2 == draw_bits(m, sprite_line, initial_x, y, 0)
                  IN  IF y = ScreenHeight - 1 THEN m2
                      ELSE draw_rows(m2, initial_x, y + 1, sprite_offset + 1, n)

draw(m, register_x, register_y, n) ==
    LET initial_x == Reg(m, register_x) % 64
        y == Reg(m, register_y) % 32
    IN  draw_rows(clear_vf(m), initial_x, y, 0, n)

\* fetch_instruction: the interpreter after the fetch and the word fetched.
fetch_instruction(m) ==
    LET pc == m.program_counter
        next == add_u16(m, pc, 1)
    IN  IF ~ram_in_bounds(pc) THEN [m |-> Panic(m, IndexPanic), instruction |-> 0]
        ELSE IF Panicked(next.m) THEN [m |-> next.m, instruction |-> 0]
        ELSE IF ~ram_in_bounds(next.value)
             THEN [m |-> Panic(m, IndexPanic), instruction |-> 0]
        ELSE LET word == (ram_index(m, pc) * 256) + ram_index(m, next.value)
                 advanced == add_u16(m, pc, 2)
             IN  IF Panicked(advanced.m) THEN [m |-> advanced.m, instruction |-> word]
                 ELSE [m |-> [m EXCEPT !.program_counter = advanced.value],
                       instruction |-> word]

\* program_counter += 2 of the skip instructions.
skip(m) ==
    LET sum == add_u16(m, m.program_counter, 2)
    IN  IF Panicked(sum.m) THEN sum.m
        ELSE [m EXCEPT !.program_counter = sum.value]

\* keys_state[key_index]: an index of 16 or more is out of bounds.
key_in_bounds(key_index) == key_index < 16

RECURSIVE store_registers_loop(_, _, _)
\* for register in 0..=up_to_register of StoreRegisters.
store_registers_loop(m, register, up_to_register) ==
    IF register > up_to_register THEN m
    ELSE IF ~ram_in_bounds(m.index_register) THEN Panic(m, IndexPanic)
    ELSE LET written == ram_index_mut(m, m.index_register, Reg(m, register))
             sum == add_u16(written, written.index_register, 1)
         IN  IF Panicked(sum.m) THEN sum.m
             ELSE store_registers_loop([written EXCEPT !.index_register = sum.value],
                                       register + 1, up_to_register)

RECURSIVE load_into_registers_loop(_, _, _)
\* for register in 0..=up_to_register of LoadIntoRegisters.
load_into_registers_loop(m, register, up_to_register) ==
    IF register > up_to_register THEN m
    ELSE IF ~ram_in_bounds(m.index_register) THEN Panic(m, IndexPanic)
    ELSE LET loaded == SetReg(m, register, ram_index(m, m.index_register))
             sum == add_u16(loaded, loaded.index_register, 1)
         IN  IF Panicked(sum.m) THEN sum.m
             ELSE load_into_registers_loop([loaded EXCEPT !.index_register = sum.value],
                                           register + 1, up_to_register)

\* No restore of the index register in any build.
restore_index_never(m, after) == after

\* In the modern build the index register is restored after the loop; a
\* panic inside the loop skips the restore.
restore_index(m, after) ==
    IF modern /\ ~Panicked(after)
    THEN [after EXCEPT !.index_register = m.index_register]
    ELSE after

store_decimal_conversion(m, register) ==
    LET value == Reg(m, register)
        hundreds == value \div 100
        tens == (value - (hundreds * 100)) \div 10
        ones == value - (hundreds * 100) - (tens * 10)
        i == m.index_register
        i1 == add_u16(m, i, 1)
    IN  IF ~ram_in_bounds(i) THEN Panic(m, IndexPanic)
        ELSE LET m1 == ram_index_mut(m, i, hundreds)
             IN  IF Panicked(i1.m) THEN Panic(m1, OverflowPanic)
                 ELSE IF ~ram_in_bounds(i1.value) THEN Panic(m1, IndexPanic)
                 ELSE LET m2 == ram_index_mut(m1, i1.value, tens)
                          i2 == add_u16(m2, i, 2)
                      IN  IF Panicked(i2.m) THEN i2.m
                          ELSE IF ~ram_in_bounds(i2.value) THEN Panic(m2, IndexPanic)
                          ELSE ram_index_mut(m2, i2.value, ones)

\* The WaitForKey arm without the snapshot of the pressed keys.
wait_for_key_without_snapshot(m, register) ==
    [m EXCEPT !.input_handler.waiting = Some(register)]

\* The WaitForKey arm of execute.
wait_for_key(m, register) ==
    [m EXCEPT !.input_handler.keys_state =
                  [k \in 0 .. 15 |-> IF @[k] = "Pressed" THEN "AlreadyPressed" ELSE @[k]],
              !.input_handler.waiting = Some(register)]

\* The JumpOffset arm of execute: V0 in the legacy build, Vregister in the
\* modern build.
jump_offset(m, instruction) ==
    LET register == IF modern THEN instruction.register ELSE 0
        sum == add_u16(m, instruction.base_address, Reg(m, register))
    IN  IF Panicked(sum.m) THEN sum.m
        ELSE [m EXCEPT !.program_counter = sum.value]

\* The AddIndexWithVariable arm of execute: index_register += Vx as u16.
add_index_with_variable(m, register) ==
    LET sum == add_u16(m, m.index_register, Reg(m, register))
    IN  IF Panicked(sum.m) THEN sum.m
        ELSE [m EXCEPT !.index_register = sum.value]

\* An AddWithVariable arm that writes the flag before the sum.
add_with_variable_flag_first(m, instruction) ==
    LET total == Reg(m, instruction.register_x) + Reg(m, instruction.register_y)
        overflow == IF total >= U8 THEN 1 ELSE 0
    IN  SetReg(set_vf_to(m, overflow), instruction.register_x, total % U8)

\* The AddWithVariable arm of execute: overflowing_add, the sum to Vx, then
\* the overflow flag to VF.
add_with_variable(m, instruction) ==
    LET total == Reg(m, instruction.register_x) + Reg(m, instruction.register_y)
        overflow == IF total >= U8 THEN 1 ELSE 0
    IN  set_vf_to(SetReg(m, instruction.register_x, total % U8), overflow)

\* A SubWithVariable arm whose flag is the borrow itself.
sub_with_variable_borrow_flag(m, instruction) ==
    LET x == Reg(m, instruction.register_x)
        y == Reg(m, instruction.register_y)
        overflow == x < y
    IN  set_vf_to(SetReg(m, instruction.register_x, (x - y) % U8),
                  IF overflow THEN 1 ELSE 0)

\* The SubWithVariable arm of execute: overflowing_sub, the difference to
\* Vx, then !overflow to VF.
sub_with_variable(m, instruction) ==
    LET x == Reg(m, instruction.register_x)
        y == Reg(m, instruction.register_y)
        overflow == x < y
    IN  set_vf_to(SetReg(m, instruction.register_x, (x - y) % U8),
                  IF overflow THEN 0 ELSE 1)

\* The SubWithVariableNot arm of execute.
sub_with_variable_not(m, instruction) ==
    LET x == Reg(m, instruction.register_x)
        y == Reg(m, instruction.register_y)
        overflow == y < x
    IN  set_vf_to(SetReg(m, instruction.register_x, (y - x) % U8),
                  IF overflow THEN 0 ELSE 1)

\* A legacy copy that is left out: Vx is shifted in place in every build.
shift_source_in_place(m, instruction) == m

\* The ShiftRight and ShiftLeft arms of execute.
shift_source(m, instruction) ==
    IF modern THEN m
    ELSE SetReg(m, instruction.register_x, Reg(m, instruction.register_y))

shift_right(m, instruction) ==
    LET m1 == shift_source(m, instruction)
        last_digit == Reg(m1, instruction.register_x) % 2
        m2 == SetReg(m1, instruction.register_x, Reg(m1, instruction.register_x) \div 2)
    IN  set_vf_to(m2, last_digit)

shift_left(m, instruction) ==
    LET m1 == shift_source(m, instruction)
        first_digit == Reg(m1, instruction.register_x) \div 128
        m2 == SetReg(m1, instruction.register_x,
                     (Reg(m1, instruction.register_x) * 2) % U8)
    IN  set_vf_to(m2, first_digit)

\* Key tests that take an AlreadyPressed key for a held one.
skip_key_held(m, register, when_pressed) ==
    LET key_index == Reg(m, register)
    IN  IF ~key_in_bounds(key_index) THEN Panic(m, IndexPanic)
        ELSE IF (m.input_handler.keys_state[key_index] # "NotPressed") = when_pressed
             THEN skip(m)
             ELSE m

\* The SkipKey and SkipNotKey arms of execute.
skip_key(m, register, when_pressed) ==
    LET key_index == Reg(m, register)
    IN  IF ~key_in_bounds(key_index) THEN Panic(m, IndexPanic)
        ELSE IF (m.input_handler.keys_state[key_index] = "Pressed") = when_pressed
             THEN skip(m)
             ELSE m

\* A SetSoundTimer arm that writes both timers.
set_sound_timer_on_both(m, register) ==
    [m EXCEPT !.sound_timer.value = Reg(m, register),
              !.delay_timer.value = Reg(m, register)]

\* The SetDelayTimer and SetSoundTimer arms of execute.
set_delay_timer(m, register) == [m EXCEPT !.delay_timer.value = Reg(m, register)]

set_sound_timer(m, register) == [m EXCEPT !.sound_timer.value = Reg(m, register)]

\* Interpreter::execute.  random_byte is the byte drawn from OsRng by the
\* RandomAnd arm.
execute(m, instruction, random_byte) ==
    LET v == instruction.variant
    IN  IF v = "Call"
        THEN [stack_push(m, m.program_counter) EXCEPT !.program_counter = instruction.address]
        ELSE IF v = "Return"
        THEN LET popped == stack_pop(m)
             IN  IF Panicked(popped.m) THEN popped.m
                 ELSE [popped.m EXCEPT !.program_counter = popped.address]
        ELSE IF v = "Jump" THEN [m EXCEPT !.program_counter = instruction.address]
        ELSE IF v = "JumpOffset" THEN jump_offset(m, instruction)
        ELSE IF v = "SkipEqualByte"
        THEN IF Reg(m, instruction.register) = instruction.byte THEN skip(m) ELSE m
        ELSE IF v = "SkipNotEqualByte"
        THEN IF Reg(m, instruction.register) # instruction.byte THEN skip(m) ELSE m
        ELSE IF v = "SkipEqualVariable"
        THEN IF Reg(m, instruction.register_x) = Reg(m, instruction.register_y)
             THEN skip(m) ELSE m
        ELSE IF v = "SkipNotEqualVariable"
        THEN IF Reg(m, instruction.register_x) # Reg(m, instruction.register_y)
             THEN skip(m) ELSE m
        ELSE IF v = "SkipKey" THEN skip_key(m, instruction.register, TRUE)
        ELSE IF v = "SkipNotKey" THEN skip_key(m, instruction.register, FALSE)
        ELSE IF v = "SetWithByte" THEN SetReg(m, instruction.register, instruction.byte)
        ELSE IF v = "SetWithVariable"
        THEN SetReg(m, instruction.register_x, Reg(m, instruction.register_y))
        ELSE IF v = "SetIndexWithAddress"
        THEN [m EXCEPT !.index_register = instruction.address]
        ELSE IF v = "SetIndexWithSpriteAddress"
        THEN [m EXCEPT !.index_register = Reg(m, instruction.register) * 5]
        ELSE IF v = "AddWithByte"
        THEN SetReg(m, instruction.register,
                    (Reg(m, instruction.register) + instruction.byte) % U8)
        ELSE IF v = "AddWithVariable"
        THEN add_with_variable(m, instruction)
        ELSE IF v = "AddIndexWithVariable"
        THEN add_index_with_variable(m, instruction.register)
        ELSE IF v = "SubWithVariable"
        THEN sub_with_variable(m, instruction)
        ELSE IF v = "SubWithVariableNot"
        THEN sub_with_variable_not(m, instruction)
        ELSE IF v = "ShiftRight" THEN shift_right(m, instruction)
        ELSE IF v = "ShiftLeft" THEN shift_left(m, instruction)
        ELSE IF v = "Or"
        THEN SetReg(m, instruction.register_x,
                    Or8(Reg(m, instruction.register_x), Reg(m, instruction.register_y)))
        ELSE IF v = "And"
        THEN SetReg(m, instruction.register_x,
                    And8(Reg(m, instruction.register_x), Reg(m, instruction.register_y)))
        ELSE IF v = "Xor"
        THEN SetReg(m, instruction.register_x,
                    Xor8(Reg(m, instruction.register_x), Reg(m, instruction.register_y)))
        ELSE IF v = "ClearScreen" THEN screen_clear(m)
        ELSE IF v = "Draw"
        THEN draw(m, instruction.register_x, instruction.register_y, instruction.n)
        ELSE IF v = "SetVariableWithDelayTimer"
        THEN SetReg(m, instruction.register, m.delay_timer.value)
        ELSE IF v = "SetDelayTimer"
        THEN set_delay_timer(m, instruction.register)
        ELSE IF v = "SetSoundTimer"
        THEN set_sound_timer(m, instruction.register)
        ELSE IF v = "StoreRegisters"
        THEN restore_index(m, store_registers_loop(m, 0, instruction.up_to_register))
        ELSE IF v = "LoadIntoRegisters"
        THEN restore_index(m, load_into_registers_loop(m, 0, instruction.up_to_register))
        ELSE IF v = "StoreDecimalConversion"
        THEN store_decimal_conversion(m, instruction.register)
        ELSE IF v = "WaitForKey" THEN wait_for_key(m, instruction.register)
        ELSE IF v = "RandomAnd"
        THEN SetReg(m, instruction.register, And8(random_byte, instruction.byte))
        ELSE m  \* MachineRoutine

\* The head of step without its early return: a wait without an event goes
\* on to the fetch.
step_path_without_return(m) ==
    IF m.input_handler.waiting # None /\ m.input_handler.pressed_and_released # None
    THEN "resumed"
    ELSE "normal"

\* The three ways through the head of step.
step_path(m) ==
    IF m.input_handler.waiting # None
    THEN IF m.input_handler.pressed_and_released = None THEN "blocked" ELSE "resumed"
    ELSE "normal"

\* The head of step: with a wait and an event, the key goes to the waiting
\* register.
step_head(m) ==
    IF step_path(m) = "resumed"
    THEN SetReg(m, m.input_handler.waiting[1],
                key_into_u8(m.input_handler.pressed_and_released[1]))
    ELSE m

\* The word step fetches, when the fetch does not panic.
step_fetch(m) == fetch_instruction(step_head(m))

\* Interpreter::step.
step(m, random_byte) ==
    IF step_path(m) = "blocked" THEN m
    ELSE LET fetched == step_fetch(m)
             decoded_instruction == decode(fetched.instruction)
         IN  IF Panicked(fetched.m) THEN fetched.m
             ELSE IF decoded_instruction.variant = "unreachable"
                  THEN Panic(fetched.m, "invalid opcode")
             ELSE execute(fetched.m, decoded_instruction, random_byte)

(***************************************************************************)
(* The programs the machine is started on, as 16-bit words in memory       *)
(* order; words_to_bytes lays them out big-endian, as the bytes handed to  *)
(* Interpreter::new.                                                       *)
(***************************************************************************)
words_to_bytes(words) ==
    [i \in 1 .. (2 * Len(words)) |->
        IF i % 2 = 1 THEN words[(i + 1) \div 2] \div 256 ELSE words[i \div 2] % 256]

\* the wait-for-key protocol, twice, between key tests: F30A 6105 E39E E3A1 F50A 7101 00EE
program_keys ==
    << 62218, 24837, 58270, 58273, 62730, 28929, 238 >>

\* one instruction of every other kind; ends in a Return on an empty stack:
\*   2206 00E0 120A 0123 00EE 60F0 6133 8014 8015 8017 8011 8012
\*   8013 8016 801E 8210 7205 3238 5001 4238 5120 9120 FFFF C30F
\*   F329 D125 F115 F218 F407 F11E A300 F255 F265 F233 D125 00EE
program_tour ==
    << 8710, 224, 4618, 291, 238, 24816, 24883, 32788,
       32789, 32791, 32785, 32786, 32787, 32790, 32798, 33296,
       29189, 12856, 20481, 16952, 20768, 37152, 65535, 49935,
       62249, 53541, 61717, 61976, 62471, 61726, 41728, 62037,
       62053, 62003, 53541, 238 >>

\* JumpOffset: V0 in the legacy build, V2 in the modern build: 6004 6206 B204 5001 00EE FFFF
program_jump_offset ==
    << 24580, 25094, 45572, 20481, 238, 65535 >>

\* StoreRegisters across the end of memory: 60AA 61BB AFFF F155
program_store_end ==
    << 24746, 25019, 45055, 61781 >>

\* LoadIntoRegisters across the end of memory: 6007 6108 AFFF F165
program_load_end ==
    << 24583, 24840, 45055, 61797 >>

\* StoreDecimalConversion across the end of memory: 60FE AFFE F033
program_decimal_end ==
    << 24830, 45054, 61491 >>

\* Draw of two rows, the second beyond the end of memory: 60FF AFFF F055 AFFF 6100 D012
program_draw_end ==
    << 24831, 45055, 61525, 45055, 24832, 53266 >>

\* a jump to the last byte of memory: 1FFF
program_fetch_end ==
    << 8191 >>

\* SkipKey with a key number of 16: 6010 E09E
program_key_index ==
    << 24592, 57502 >>

\* 5xy1: 6001 5011
program_bad_5 ==
    << 24577, 20497 >>

\* 8xy8: 8128
program_bad_8 ==
    << 33064 >>

\* 9xy1: 9001
program_bad_9 ==
    << 36865 >>

\* Ex9F: E19F
program_bad_E ==
    << 57759 >>

\* FxFF: F1FF
program_bad_F ==
    << 61951 >>

\* calls nested three deep, then the returns and a Return on the empty
\* stack: 2204 00EE 2208 00EE 220C 00EE 00EE
program_nested ==
    << 8708, 238, 8712, 238, 8716, 238, 238 >>

\* V0 = 0xFF, I = 0xFFF, then AddIndexWithVariable V0 for IndexAdds times:
\* the sum passes 0xFFFF at the last one; then LoadIntoRegisters V0 and an
\* undecodable word: 60FF AFFF F01E ... F01E F065 5001
program_index_overflow ==
    << 24831, 45055 >> \o [i \in 1 .. IndexAdds |-> 61470] \o << 61541, 20481 >>

Programs ==
    { words_to_bytes(words) : words \in
        { program_keys,
          program_tour,
          program_jump_offset,
          program_store_end,
          program_load_end,
          program_decimal_end,
          program_draw_end,
          program_fetch_end,
          program_key_index,
          program_bad_5,
          program_bad_8,
          program_bad_9,
          program_bad_E,
          program_bad_F,
          program_nested } }

\* The bytes OsRng yields: rng.gen::<u8>() is any byte.
RandomBytes == Byte

\* The bytes drawn in the execution of an instruction: execute calls OsRng in
\* the RandomAnd arm only; with any other instruction no byte is drawn and
\* the byte handed to execute is not read.
RandomDraws(instruction) ==
    IF instruction.variant = "RandomAnd" THEN RandomBytes ELSE {0}

\* The keys the driver touches in the model.
DriverKeys == {3, 7}

NoInstruction == [variant |-> "none"]

(***************************************************************************)
(* The driver's key transitions.  The crate has no function for them: the  *)
(* driver writes the public fields of InputHandler.  They follow the       *)
(* specification's set_key_state: a press makes a NotPressed key Pressed,  *)
(* a release makes the key NotPressed, and the release of a Pressed key    *)
(* records the pressed-then-released event.                                *)
(***************************************************************************)
set_key_state(m, key, pressed) ==
    LET state == m.input_handler.keys_state[key]
    IN  IF pressed
        THEN [m EXCEPT !.input_handler.keys_state[key] =
                           IF state = "NotPressed" THEN "Pressed" ELSE state]
        ELSE [m EXCEPT !.input_handler.keys_state[key] = "NotPressed",
                       !.input_handler.pressed_and_released =
                           IF state = "Pressed" THEN Some(Keys[key + 1]) ELSE @]

(***************************************************************************)
(* The machine: Interpreter::new(program), then step() calls and key       *)
(* transitions in any order.  A panic ends the run.                        *)
(***************************************************************************)
\* No reset() and no decrement() made yet on either timer.
no_timer_runs ==
    [delay_timer |-> [reset |-> FALSE, decrements |-> 0],
     sound_timer |-> [reset |-> FALSE, decrements |-> 0]]

MachineInit ==
    /\ interpreter = new
    /\ index_ideal = 0
    /\ steps = 0
    /\ events = 0
    /\ last = [call |-> "new", path |-> "", word |-> -1, variant |-> "none"]
    /\ event_since_wait = FALSE
    /\ calls = 0
    /\ returns = 0
    /\ initial = interpreter
    /\ timer_runs = no_timer_runs

CodecIdle ==
    /\ opcode = 0
    /\ instruction_in = NoInstruction
    /\ decoded = NoInstruction

Init ==
    /\ modern \in BOOLEAN
    /\ overflow_checks \in BOOLEAN
    /\ program \in Programs
    /\ MachineInit
    /\ CodecIdle

\* The machine started on the long program that walks the index register
\* past 0xFFFF.
InitIndexOverflow ==
    /\ modern \in BOOLEAN
    /\ overflow_checks \in BOOLEAN
    /\ program = words_to_bytes(program_index_overflow)
    /\ MachineInit
    /\ CodecIdle

\* What the step about to be made fetches and decodes (NoInstruction when it
\* is blocked or the fetch panics).
StepInstruction(m) ==
    IF step_path(m) = "blocked" \/ Panicked(step_fetch(m).m) THEN NoInstruction
    ELSE decode(step_fetch(m).instruction)

StepWord(m) ==
    IF step_path(m) = "blocked" \/ Panicked(step_fetch(m).m) THEN -1
    ELSE step_fetch(m).instruction

\* 1 when the step from m to after has executed an instruction of the
\* variant without a panic, 0 otherwise.
Executed(m, after, variant) ==
    IF StepInstruction(m).variant = variant /\ ~Panicked(after) THEN 1 ELSE 0

\* A SetDelayTimer or SetSoundTimer executed by the step ends the run of
\* decrement() calls counted for that timer.
RunsAfterStep(m, after) ==
    [which \in DOMAIN timer_runs |->
        IF \/ which = "delay_timer" /\ Executed(m, after, "SetDelayTimer") = 1
           \/ which = "sound_timer" /\ Executed(m, after, "SetSoundTimer") = 1
        THEN [reset |-> FALSE, decrements |-> 0]
        ELSE timer_runs[which]]

\* The index register as it would be without the 16-bit wrap.
IdealAfter(m, after) ==
    LET instruction == StepInstruction(m)
        v == instruction.variant
    IN  IF v \in {"none", "unreachable"} THEN index_ideal
        ELSE IF v = "AddIndexWithVariable"
             THEN IF Panicked(after) THEN index_ideal
                  ELSE index_ideal + Reg(step_head(m), instruction.register)
        ELSE IF v \in {"SetIndexWithAddress", "SetIndexWithSpriteAddress"}
             THEN after.index_register
        ELSE index_ideal + (after.index_register - m.index_register)

Step(limit) ==
    /\ steps < limit
    /\ ~Panicked(interpreter)
    /\ \E random_byte \in RandomDraws(StepInstruction(interpreter)) :
          LET after == step(interpreter, random_byte)
          IN  /\ interpreter' = after
              /\ index_ideal' = IdealAfter(interpreter, after)
    /\ steps' = steps + 1
    /\ last' = [call |-> "step", path |-> step_path(interpreter),
                word |-> StepWord(interpreter),
                variant |-> StepInstruction(interpreter).variant]
    /\ event_since_wait' =
          IF StepInstruction(interpreter).variant = "WaitForKey" THEN FALSE
          ELSE event_since_wait
    /\ calls' = calls + Executed(interpreter, interpreter', "Call")
    /\ returns' = returns + Executed(interpreter, interpreter', "Return")
    /\ timer_runs' = RunsAfterStep(interpreter, interpreter')
    /\ UNCHANGED <<modern, overflow_checks, program, events, initial, codec_vars>>

KeyPress ==
    /\ events < MaxEvents
    /\ ~Panicked(interpreter)
    /\ \E key \in DriverKeys :
          /\ interpreter.input_handler.keys_state[key] = "NotPressed"
          /\ interpreter' = set_key_state(interpreter, key, TRUE)
    /\ events' = events + 1
    /\ last' = [call |-> "press", path |-> "", word |-> -1, variant |-> "none"]
    /\ UNCHANGED <<modern, overflow_checks, program, index_ideal, steps,
                   event_since_wait, calls, returns, initial, timer_runs, codec_vars>>

KeyRelease ==
    /\ events < MaxEvents
    /\ ~Panicked(interpreter)
    /\ \E key \in DriverKeys :
          /\ interpreter.input_handler.keys_state[key] # "NotPressed"
          /\ interpreter' = set_key_state(interpreter, key, FALSE)
          /\ event_since_wait' =
                IF /\ interpreter.input_handler.keys_state[key] = "Pressed"
                   /\ interpreter.input_handler.waiting # None
                THEN TRUE
                ELSE event_since_wait
    /\ events' = events + 1
    /\ last' = [call |-> "release", path |-> "", word |-> -1, variant |-> "none"]
    /\ UNCHANGED <<modern, overflow_checks, program, index_ideal, steps, calls,
                   returns, initial, timer_runs, codec_vars>>

Next == Step(MaxSteps) \/ KeyPress \/ KeyRelease

NextLong == Step(MaxLongSteps) \/ KeyPress \/ KeyRelease

Spec == Init /\ [][Next]_vars

SpecIndexOverflow == InitIndexOverflow /\ [][NextLong]_vars

(***************************************************************************)
(* Properties of the machine.                                              *)
(***************************************************************************)
\* The transition is a call of step().
StepCall == steps' = steps + 1

Waiting == interpreter.input_handler.waiting # None
EventRecorded == interpreter.input_handler.pressed_and_released # None

\* C1: a step() made while the machine waits for a key and no
\* pressed-then-released event is recorded changes nothing of the
\* interpreter: program counter, registers, I, memory, stack, display,
\* timers and input handler (and it does not panic); this holds for every
\* such call, so for any number of them in a row.
C1_BlockedStepChangesNothing ==
    [][(StepCall /\ Waiting /\ ~EventRecorded) => interpreter' = interpreter]_vars

\* Three step() calls made, the last of them blocked on the wait of V3.
C1_Witness ==
    /\ last.call = "step" /\ last.path = "blocked"
    /\ steps >= 3
    /\ interpreter.input_handler.waiting = Some(3)
    /\ interpreter.program_counter = ProgramStart + 2

\* C2 (as claimed): the step() that finds the event while waiting clears the
\* wait; the instruction it goes on to execute is set aside when that is a
\* new WaitForKey.
C2_WaitClearedOnEvent ==
    [][(StepCall /\ Waiting /\ EventRecorded
            /\ StepInstruction(interpreter).variant # "WaitForKey")
        => interpreter'.input_handler.waiting = None]_vars

\* C3 (as claimed): a step() made while the machine waits never fetches, the
\* call that finds the event included: the program counter stays.
C3_NoFetchWhileWaiting ==
    [][(StepCall /\ Waiting)
        => interpreter'.program_counter = interpreter.program_counter]_vars

\* C4 (as claimed): the wait is only satisfied by an event recorded after the
\* wait began: a step() that takes the event finds one recorded since the
\* last WaitForKey was executed.
C4_StaleEventDoesNotSatisfy ==
    [][(StepCall /\ Waiting /\ EventRecorded) => event_since_wait]_vars

\* C5: executing WaitForKey{register} turns every Pressed key into
\* AlreadyPressed, leaves the other keys as they are and sets the waiting
\* slot to register; and while the machine waits, keys that are held (in
\* whatever state) do not un-block step(): without a recorded
\* pressed-then-released event a step() changes nothing.
C5_WaitForKeySnapshot ==
    [][/\ (StepCall /\ StepInstruction(interpreter).variant = "WaitForKey")
          => /\ \A k \in 0 .. 15 :
                   interpreter'.input_handler.keys_state[k] =
                      IF interpreter.input_handler.keys_state[k] = "Pressed"
                      THEN "AlreadyPressed"
                      ELSE interpreter.input_handler.keys_state[k]
             /\ interpreter'.input_handler.waiting =
                   Some(StepInstruction(interpreter).register)
       /\ (/\ StepCall /\ Waiting /\ ~EventRecorded
           /\ \E k \in 0 .. 15 : interpreter.input_handler.keys_state[k] # "NotPressed")
          => interpreter' = interpreter]_vars

\* Key 3 was held when WaitForKey V3 was executed, is still held, and a
\* step() made since then was blocked.
C5_Witness ==
    /\ interpreter.input_handler.keys_state[3] = "AlreadyPressed"
    /\ interpreter.input_handler.waiting = Some(3)
    /\ interpreter.input_handler.pressed_and_released = None
    /\ last.call = "step" /\ last.path = "blocked"
    /\ interpreter.variable_registers[3] = 0

\* C6 (as claimed): a step() whose fetched word matches no pattern ends in a
\* failure value, not in a panic, and leaves the machine as it was.
C6_DecodeFailureIsValue ==
    [][(StepCall /\ StepInstruction(interpreter).variant = "unreachable")
        => interpreter' = interpreter]_vars

\* The interpreter without the record of the panic.
Unpanicked(m) == [m EXCEPT !.panicked = "none"]

\* C9 (as claimed): when the instruction a step() has fetched ends in an
\* error, none of the instruction's writes is visible: the machine is as the
\* fetch left it.
C9_NoPartialInstruction ==
    [][(StepCall /\ Panicked(interpreter') /\ StepInstruction(interpreter).variant # "none")
        => Unpanicked(interpreter') = step_fetch(interpreter).m]_vars

\* The instructions that access memory at the index register.
AccessesIndex(instruction) ==
    \/ instruction.variant \in {"StoreRegisters", "LoadIntoRegisters",
                                "StoreDecimalConversion"}
    \/ instruction.variant = "Draw" /\ instruction.n > 0

\* C10 (as claimed): a memory access at a computed address of 4096 or more
\* is an error: a step() that fetches at a program counter of 4095 or more,
\* or whose instruction accesses memory at an index that is 4096 or more
\* when computed without wrap, ends in a panic.
C10_OutOfRangeIsReported ==
    [][/\ (StepCall /\ step_path(interpreter) # "blocked"
               /\ interpreter.program_counter + 1 >= RamSize)
          => Panicked(interpreter')
       /\ (StepCall /\ AccessesIndex(StepInstruction(interpreter))
               /\ index_ideal >= RamSize)
          => Panicked(interpreter')]_vars

(***************************************************************************)
(* The codec.  The opcode patterns are those of the doc comments of the    *)
(* Instruction enum (instructions.rs), one per variant: encode fills a     *)
(* pattern's operand nibbles with the operands of the instruction.         *)
(***************************************************************************)
nibbles(a, b, c, d) == (a * 4096) + (b * 256) + (c * 16) + d

\* The y nibble of the 8xy6 / 8xyE patterns: register_y in the legacy
\* build; the modern variants carry none and the nibble is left 0.
shift_y(instruction) == IF modern THEN 0 ELSE instruction.register_y

encode(instruction) ==
    LET v == instruction.variant
        xy(a, d) == nibbles(a, instruction.register_x, instruction.register_y, d)
        xkk(a) == nibbles(a, instruction.register, 0, 0) + instruction.byte
        x(a, c, d) == nibbles(a, instruction.register, c, d)
    IN  CASE v = "Call" -> nibbles(2, 0, 0, 0) + instruction.address
          [] v = "Return" -> nibbles(0, 0, 14, 14)
          [] v = "Jump" -> nibbles(1, 0, 0, 0) + instruction.address
          [] v = "JumpOffset" -> nibbles(11, 0, 0, 0) + instruction.base_address
          [] v = "SkipEqualByte" -> xkk(3)
          [] v = "SkipNotEqualByte" -> xkk(4)
          [] v = "SkipEqualVariable" -> xy(5, 0)
          [] v = "SkipNotEqualVariable" -> xy(9, 0)
          [] v = "SkipKey" -> x(14, 9, 14)
          [] v = "SkipNotKey" -> x(14, 10, 1)
          [] v = "SetWithByte" -> xkk(6)
          [] v = "SetWithVariable" -> xy(8, 0)
          [] v = "SetIndexWithAddress" -> nibbles(10, 0, 0, 0) + instruction.address
          [] v = "SetIndexWithSpriteAddress" -> x(15, 2, 9)
          [] v = "AddWithByte" -> xkk(7)
          [] v = "AddWithVariable" -> xy(8, 4)
          [] v = "AddIndexWithVariable" -> x(15, 1, 14)
          [] v = "SubWithVariable" -> xy(8, 5)
          [] v = "SubWithVariableNot" -> xy(8, 7)
          [] v = "ShiftRight" -> nibbles(8, instruction.register_x, shift_y(instruction), 6)
          [] v = "ShiftLeft" -> nibbles(8, instruction.register_x, shift_y(instruction), 14)
          [] v = "Or" -> xy(8, 1)
          [] v = "And" -> xy(8, 2)
          [] v = "Xor" -> xy(8, 3)
          [] v = "ClearScreen" -> nibbles(0, 0, 14, 0)
          [] v = "Draw" -> nibbles(13, instruction.register_x, instruction.register_y,
                                   instruction.n)
          [] v = "SetVariableWithDelayTimer" -> x(15, 0, 7)
          [] v = "SetDelayTimer" -> x(15, 1, 5)
          [] v = "SetSoundTimer" -> x(15, 1, 8)
          [] v = "StoreRegisters" -> nibbles(15, instruction.up_to_register, 5, 5)
          [] v = "LoadIntoRegisters" -> nibbles(15, instruction.up_to_register, 6, 5)
          [] v = "StoreDecimalConversion" -> x(15, 3, 3)
          [] v = "WaitForKey" -> x(15, 0, 10)
          [] v = "RandomAnd" -> xkk(12)
          [] v = "MachineRoutine" -> nibbles(0, 0, 0, 0) + instruction.address

\* Every value of the Instruction enum whose operands fit their opcode
\* fields, in the build at hand.
Address == 0 .. 4095

NullaryInstructions == {I0("ClearScreen"), I0("Return")}

AddressInstructions ==
    {IAddr(v, address) :
        v \in {"MachineRoutine", "Jump", "Call", "SetIndexWithAddress"},
        address \in Address}

JumpOffsetInstructions ==
    IF modern
    THEN {[variant |-> "JumpOffset", base_address |-> address, register |-> r] :
             address \in Address, r \in Nibble}
    ELSE {[variant |-> "JumpOffset", base_address |-> address] : address \in Address}

RegisterByteInstructions ==
    {IRegByte(v, r, byte) :
        v \in {"SkipEqualByte", "SkipNotEqualByte", "SetWithByte", "AddWithByte",
               "RandomAnd"},
        r \in Nibble, byte \in Byte}

RegisterPairInstructions ==
    {IRegReg(v, rx, ry) :
        v \in {"SkipEqualVariable", "SkipNotEqualVariable", "SetWithVariable", "Or",
               "And", "Xor", "AddWithVariable", "SubWithVariable",
               "SubWithVariableNot"},
        rx \in Nibble, ry \in Nibble}

ShiftInstructions ==
    IF modern
    THEN {[variant |-> v, register_x |-> rx] :
             v \in {"ShiftRight", "ShiftLeft"}, rx \in Nibble}
    ELSE {[variant |-> v, register_x |-> rx, register_y |-> ry] :
             v \in {"ShiftRight", "ShiftLeft"}, rx \in Nibble, ry \in Nibble}

DrawInstructions ==
    {[variant |-> "Draw", register_x |-> rx, register_y |-> ry, n |-> n] :
        rx \in Nibble, ry \in Nibble, n \in Nibble}

RegisterInstructions ==
    {IReg(v, r) :
        v \in {"SkipKey", "SkipNotKey", "SetVariableWithDelayTimer", "WaitForKey",
               "SetDelayTimer", "SetSoundTimer", "AddIndexWithVariable",
               "SetIndexWithSpriteAddress", "StoreDecimalConversion"},
        r \in Nibble}

UpToRegisterInstructions ==
    {[variant |-> v, up_to_register |-> r] :
        v \in {"StoreRegisters", "LoadIntoRegisters"}, r \in Nibble}

\* No machine runs in the codec specifications: it is the one built on the
\* empty program and never stepped.
MachineIdle ==
    /\ overflow_checks = TRUE
    /\ program = << >>
    /\ MachineInit

\* decode applied to every 16-bit word.
InitDecode ==
    /\ modern \in BOOLEAN
    /\ MachineIdle
    /\ opcode \in 0 .. (U16 - 1)
    /\ instruction_in = NoInstruction
    /\ decoded = NoInstruction

Decode ==
    /\ decoded = NoInstruction
    /\ instruction_in = NoInstruction
    /\ decoded' = decode(opcode)
    /\ UNCHANGED <<modern, overflow_checks, machine_vars, opcode, instruction_in>>

SpecDecode == InitDecode /\ [][Decode]_vars

\* encode, then decode, applied to every instruction.
InitRoundTrip ==
    /\ modern \in BOOLEAN
    /\ MachineIdle
    /\ opcode = 0
    /\ \/ instruction_in \in NullaryInstructions
       \/ instruction_in \in AddressInstructions
       \/ instruction_in \in JumpOffsetInstructions
       \/ instruction_in \in RegisterByteInstructions
       \/ instruction_in \in RegisterPairInstructions
       \/ instruction_in \in ShiftInstructions
       \/ instruction_in \in DrawInstructions
       \/ instruction_in \in RegisterInstructions
       \/ instruction_in \in UpToRegisterInstructions
    /\ decoded = NoInstruction

RoundTrip ==
    /\ decoded = NoInstruction
    /\ instruction_in # NoInstruction
    /\ opcode' = encode(instruction_in)
    /\ decoded' = decode(opcode')
    /\ UNCHANGED <<modern, overflow_checks, machine_vars, instruction_in>>

SpecRoundTrip == InitRoundTrip /\ [][RoundTrip]_vars

(***************************************************************************)
(* Properties of the codec.                                                *)
(***************************************************************************)
\* The opcode table: a nibble pattern (the values each nibble may take; an
\* operand nibble may take any), the variant and the form of its operands.
AnyNibble == Nibble

Row(a, b, c, d, variant, form) ==
    [pattern |-> <<a, b, c, d>>, variant |-> variant, form |-> form]

OpcodeTable ==
    { Row({0}, {0}, {14}, {0}, "ClearScreen", "none"),
      Row({0}, {0}, {14}, {14}, "Return", "none"),
      Row({0}, AnyNibble, AnyNibble, AnyNibble, "MachineRoutine", "nnn"),
      Row({1}, AnyNibble, AnyNibble, AnyNibble, "Jump", "nnn"),
      Row({2}, AnyNibble, AnyNibble, AnyNibble, "Call", "nnn"),
      Row({3}, AnyNibble, AnyNibble, AnyNibble, "SkipEqualByte", "xkk"),
      Row({4}, AnyNibble, AnyNibble, AnyNibble, "SkipNotEqualByte", "xkk"),
      Row({5}, AnyNibble, AnyNibble, {0}, "SkipEqualVariable", "xy"),
      Row({6}, AnyNibble, AnyNibble, AnyNibble, "SetWithByte", "xkk"),
      Row({7}, AnyNibble, AnyNibble, AnyNibble, "AddWithByte", "xkk"),
      Row({8}, AnyNibble, AnyNibble, {0}, "SetWithVariable", "xy"),
      Row({8}, AnyNibble, AnyNibble, {1}, "Or", "xy"),
      Row({8}, AnyNibble, AnyNibble, {2}, "And", "xy"),
      Row({8}, AnyNibble, AnyNibble, {3}, "Xor", "xy"),
      Row({8}, AnyNibble, AnyNibble, {4}, "AddWithVariable", "xy"),
      Row({8}, AnyNibble, AnyNibble, {5}, "SubWithVariable", "xy"),
      Row({8}, AnyNibble, AnyNibble, {6}, "ShiftRight", "shift"),
      Row({8}, AnyNibble, AnyNibble, {7}, "SubWithVariableNot", "xy"),
      Row({8}, AnyNibble, AnyNibble, {14}, "ShiftLeft", "shift"),
      Row({9}, AnyNibble, AnyNibble, {0}, "SkipNotEqualVariable", "xy"),
      Row({10}, AnyNibble, AnyNibble, AnyNibble, "SetIndexWithAddress", "nnn"),
      Row({11}, AnyNibble, AnyNibble, AnyNibble, "JumpOffset", "offset"),
      Row({12}, AnyNibble, AnyNibble, AnyNibble, "RandomAnd", "xkk"),
      Row({13}, AnyNibble, AnyNibble, AnyNibble, "Draw", "xyn"),
      Row({14}, AnyNibble, {9}, {14}, "SkipKey", "x"),
      Row({14}, AnyNibble, {10}, {1}, "SkipNotKey", "x"),
      Row({15}, AnyNibble, {0}, {7}, "SetVariableWithDelayTimer", "x"),
      Row({15}, AnyNibble, {0}, {10}, "WaitForKey", "x"),
      Row({15}, AnyNibble, {1}, {5}, "SetDelayTimer", "x"),
      Row({15}, AnyNibble, {1}, {8}, "SetSoundTimer", "x"),
      Row({15}, AnyNibble, {1}, {14}, "AddIndexWithVariable", "x"),
      Row({15}, AnyNibble, {2}, {9}, "SetIndexWithSpriteAddress", "x"),
      Row({15}, AnyNibble, {3}, {3}, "StoreDecimalConversion", "x"),
      Row({15}, AnyNibble, {5}, {5}, "StoreRegisters", "up_to"),
      Row({15}, AnyNibble, {6}, {5}, "LoadIntoRegisters", "up_to") }

\* The four nibbles of a word, most significant first, by repeated halving
\* of the hexadecimal digits.
HexDigits(word) ==
    LET d4 == word % 16
        r3 == (word - d4) \div 16
        d3 == r3 % 16
        r2 == (r3 - d3) \div 16
        d2 == r2 % 16
        d1 == (r2 - d2) \div 16
    IN  <<d1, d2, d3, d4>>

RowMatches(row, word) ==
    \A i \in 1 .. 4 : HexDigits(word)[i] \in row.pattern[i]

Wildcards(row) == Cardinality({i \in 1 .. 4 : row.pattern[i] = AnyNibble})

MatchingRows(word) == {row \in OpcodeTable : RowMatches(row, word)}

\* The row of a word: where 0nnn and 00E0 / 00EE both match, the exact
\* pattern is the row.
TableRow(word) ==
    CHOOSE row \in MatchingRows(word) :
        \A other \in MatchingRows(word) : Wildcards(row) <= Wildcards(other)

\* The instruction the table gives for a word that matches a row.
TableInstruction(word) ==
    LET row == TableRow(word)
        h == HexDigits(word)
        x == h[2]
        y == h[3]
        n == h[4]
        kk == (16 * h[3]) + h[4]
        nnn == (256 * h[2]) + (16 * h[3]) + h[4]
        f == row.form
    IN  IF f = "none" THEN [variant |-> row.variant]
        ELSE IF f = "nnn" THEN [variant |-> row.variant, address |-> nnn]
        ELSE IF f = "xkk" THEN [variant |-> row.variant, register |-> x, byte |-> kk]
        ELSE IF f = "xy" THEN [variant |-> row.variant, register_x |-> x, register_y |-> y]
        ELSE IF f = "shift"
             THEN IF modern THEN [variant |-> row.variant, register_x |-> x]
                  ELSE [variant |-> row.variant, register_x |-> x, register_y |-> y]
        ELSE IF f = "offset"
             THEN IF modern
                  THEN [variant |-> row.variant, base_address |-> nnn, register |-> x]
                  ELSE [variant |-> row.variant, base_address |-> nnn]
        ELSE IF f = "xyn"
             THEN [variant |-> row.variant, register_x |-> x, register_y |-> y, n |-> n]
        ELSE IF f = "x" THEN [variant |-> row.variant, register |-> x]
        ELSE [variant |-> row.variant, up_to_register |-> x]

\* C7: for every 16-bit word that matches a pattern of the opcode table,
\* decode returns the variant of that pattern with x, y, n, kk and nnn taken
\* from the second, third and fourth nibble, the low byte and the low 12
\* bits; 0x00E0 is ClearScreen, 0x00EE is Return and every other 0nnn is
\* MachineRoutine.
C7_DecodeMatchesTable ==
    (decoded # NoInstruction /\ MatchingRows(opcode) # {})
        => decoded = TableInstruction(opcode)

\* 0x8AB6 decoded in the legacy build: ShiftRight with register_y.
C7_Witness ==
    /\ ~modern
    /\ opcode = 35510
    /\ decoded = [variant |-> "ShiftRight", register_x |-> 10, register_y |-> 11]

\* C8 (as claimed): every instruction, with every value of its operands,
\* is the instruction its encoding decodes to.
C8_RoundTripAll ==
    (instruction_in # NoInstruction /\ decoded # NoInstruction)
        => decoded = instruction_in

\* The instructions decode never yields although their operands fit the
\* opcode fields: MachineRoutine at the addresses of ClearScreen and Return,
\* and, in the modern build, JumpOffset with a register other than bits
\* 8..11 of the base address.
RoundTrips(instruction) ==
    /\ ~(instruction.variant = "MachineRoutine" /\ instruction.address \in {224, 238})
    /\ (modern /\ instruction.variant = "JumpOffset")
          => instruction.register = (instruction.base_address \div 256) % 16

\* C8 (amended): every instruction other than MachineRoutine{0x0E0},
\* MachineRoutine{0x0EE} and, in the modern build, a JumpOffset whose
\* register is not bits 8..11 of its base address, is the instruction its
\* encoding decodes to, in both builds.
C8_RoundTrip ==
    (instruction_in # NoInstruction /\ decoded # NoInstruction /\ RoundTrips(instruction_in))
        => decoded = instruction_in

\* Modern JumpOffset{0x345, register 3} encoded to 0xB345 and decoded back.
C8_Witness ==
    /\ modern
    /\ instruction_in = [variant |-> "JumpOffset", base_address |-> 837, register |-> 3]
    /\ opcode = 45893
    /\ decoded = instruction_in

(***************************************************************************)
(* Properties of the call stack.                                           *)
(***************************************************************************)
\* C11: a step() that executes Return on an empty stack ends in an error
\* (the panic of Stack::pop) and does not jump: the program counter is where
\* the fetch left it and the stack is still empty; and at every moment the
\* number of Returns executed without error is at most the number of Calls
\* executed, the difference being the depth of the stack.
C11_ReturnUnderflow ==
    /\ [][(/\ StepCall
           /\ StepInstruction(interpreter).variant = "Return"
           /\ Len(interpreter.stack) = 0)
          => /\ Panicked(interpreter')
             /\ interpreter'.program_counter = step_fetch(interpreter).m.program_counter
             /\ interpreter'.stack = << >>
             /\ returns' = returns]_vars
    /\ [](returns <= calls /\ Len(interpreter.stack) = calls - returns)

\* One Call and its Return have been executed, and a second Return, on the
\* empty stack, has just ended in the panic.
C11_Witness ==
    /\ last.call = "step" /\ last.variant = "Return"
    /\ Panicked(interpreter)
    /\ calls = 1 /\ returns = 1
    /\ interpreter.stack = << >>

(***************************************************************************)
(* Construction.  Interpreter::new is applied to programs of the lengths   *)
(* around the capacity of the memory above 0x200; the bytes of a program   *)
(* count up from its fill byte.                                            *)
(***************************************************************************)
NotConstructed == [panicked |-> "none", constructed |-> FALSE]

ProgramLengths ==
    {0, 1, 2, RamSize - ProgramStart - 1, RamSize - ProgramStart}
        \cup {RamSize - ProgramStart + k : k \in 1 .. MaxOversize}

ProgramsOfLength(length) ==
    {[i \in 1 .. length |-> (fill + i) % U8] : fill \in 0 .. MaxFill}

InitNew ==
    /\ modern \in BOOLEAN
    /\ overflow_checks = TRUE
    /\ \E length \in ProgramLengths : program \in ProgramsOfLength(length)
    /\ interpreter = NotConstructed
    /\ index_ideal = 0
    /\ steps = 0
    /\ events = 0
    /\ last = [call |-> "none", path |-> "", word |-> -1, variant |-> "none"]
    /\ event_since_wait = FALSE
    /\ calls = 0
    /\ returns = 0
    /\ initial = NotConstructed
    /\ timer_runs = no_timer_runs
    /\ CodecIdle

New ==
    /\ last.call = "none"
    /\ interpreter' = new
    /\ initial' = new
    /\ last' = [last EXCEPT !.call = "new"]
    /\ UNCHANGED <<modern, overflow_checks, program, index_ideal, steps, events,
                   event_since_wait, calls, returns, timer_runs, codec_vars>>

SpecNew == InitNew /\ [][New]_vars

\* C12: after new(program) with a program of at most 3584 bytes, memory
\* holds program byte i at 0x200 + i, the 80 font bytes at 0x000..0x04F and 0
\* elsewhere, PC is 0x200, the registers and I are 0, the stack is empty and
\* the display is blank; with a longer program the construction ends in an
\* error (the panic of load_program).
C12_Construction ==
    last.call = "new" =>
        IF Len(program) <= 3584
        THEN /\ ~Panicked(interpreter)
             /\ \A cell \in 0 .. 4095 :
                   ram_index(interpreter, cell) =
                      IF cell < 80 THEN FONT_DATA[cell + 1]
                      ELSE IF cell >= 512 /\ cell - 512 < Len(program)
                           THEN program[cell - 512 + 1]
                      ELSE 0
             /\ interpreter.program_counter = 512
             /\ \A r \in 0 .. 15 : interpreter.variable_registers[r] = 0
             /\ interpreter.index_register = 0
             /\ interpreter.stack = << >>
             /\ interpreter.screen = {}
        ELSE Panicked(interpreter)

\* A program of exactly 3584 bytes has been loaded: its last byte is the
\* last byte of memory.
C12_Witness ==
    /\ last.call = "new"
    /\ Len(program) = 3584
    /\ ~Panicked(interpreter)
    /\ ram_index(interpreter, 4095) = program[3584]
    /\ program[3584] # 0

(***************************************************************************)
(* The timers.  The driver calls decrement() and reset() on the public     *)
(* fields delay_timer and sound_timer, at any moment between the steps.    *)
(* The runs of decrement() are bounded per timer.                          *)
(***************************************************************************)
\* set the delay timer to 1 and the sound timer to 3; ends in a Return on
\* the empty stack: 6001 F015 6203 F218 00EE
program_timers ==
    << 24577, 61461, 25091, 61976, 238 >>

Timers == {"delay_timer", "sound_timer"}

MaxDecrements(which) ==
    IF which = "delay_timer" THEN MaxDelayDecrements ELSE MaxSoundDecrements

InitTimers ==
    /\ modern \in BOOLEAN
    /\ overflow_checks = TRUE
    /\ program = words_to_bytes(program_timers)
    /\ MachineInit
    /\ CodecIdle

\* interpreter.<which>.decrement()
Decrement ==
    /\ ~Panicked(interpreter)
    /\ \E which \in Timers :
          /\ timer_runs[which].decrements < MaxDecrements(which)
          /\ interpreter' = [interpreter EXCEPT ![which] = timer_decrement(@)]
          /\ timer_runs' = [timer_runs EXCEPT ![which].decrements = @ + 1]
          /\ last' = [call |-> "decrement", path |-> which, word |-> -1,
                      variant |-> "none"]
    /\ UNCHANGED <<modern, overflow_checks, program, index_ideal, steps, events,
                   event_since_wait, calls, returns, initial, codec_vars>>

\* interpreter.<which>.reset()
Reset ==
    /\ ~Panicked(interpreter)
    /\ \E which \in Timers :
          /\ interpreter' = [interpreter EXCEPT ![which] = timer_reset(@)]
          /\ timer_runs' = [timer_runs EXCEPT ![which] = [reset |-> TRUE, decrements |-> 0]]
          /\ last' = [call |-> "reset", path |-> which, word |-> -1,
                      variant |-> "none"]
    /\ UNCHANGED <<modern, overflow_checks, program, index_ideal, steps, events,
                   event_since_wait, calls, returns, initial, codec_vars>>

NextTimers == Step(MaxSteps) \/ Decrement \/ Reset

SpecTimers == InitTimers /\ [][NextTimers]_vars

\* The transition is a decrement() / a reset() of the timer.
DecrementCall(which) == last'.call = "decrement" /\ last'.path = which

ResetCall(which) == last'.call = "reset" /\ last'.path = which

\* C13: decrement() on a timer whose value is greater than 1 reduces the
\* value by exactly 1 and leaves the state; on a value of 1 it makes the
\* value 0 and the state Zero; on a value of 0 it changes nothing; the value
\* is never below 0.
C13_TimerDecrement ==
    [][\A which \in Timers :
          DecrementCall(which) =>
             /\ IF interpreter[which].value > 1
                THEN /\ interpreter'[which].value = interpreter[which].value - 1
                     /\ interpreter'[which].state = interpreter[which].state
                ELSE IF interpreter[which].value = 1
                THEN /\ interpreter'[which].value = 0
                     /\ interpreter'[which].state = "Zero"
                ELSE interpreter'[which] = interpreter[which]
             /\ interpreter'[which].value >= 0]_vars

\* SetDelayTimer has set the delay timer to 1 and one decrement() has taken
\* it to 0 and to the state Zero.
C13_Witness ==
    /\ last.call = "decrement" /\ last.path = "delay_timer"
    /\ ~timer_runs.delay_timer.reset
    /\ timer_runs.delay_timer.decrements = 1
    /\ interpreter.delay_timer = [value |-> 0, state |-> "Zero"]

\* C14 (as claimed): reset() sets the value to 60 from any state of the
\* timer, and after reset() and k decrement() calls with nothing else in
\* between the value is 60 - k for k <= 60 and 0 beyond, and the state is
\* Zero exactly when k >= 60.
C14_ResetThenDecrement ==
    /\ [][\A which \in Timers :
             ResetCall(which) => interpreter'[which].value = 60]_vars
    /\ [](\A which \in Timers :
             (~Panicked(interpreter) /\ timer_runs[which].reset) =>
                LET k == timer_runs[which].decrements
                IN  /\ interpreter[which].value = IF k <= 60 THEN 60 - k ELSE 0
                    /\ (interpreter[which].state = "Zero") <=> (k >= 60))

\* C24 (as claimed): in every reachable state, after construction and any
\* sequence of decrement(), reset(), SetDelayTimer and SetSoundTimer, the
\* lifecycle state of a timer is Zero if and only if its value is 0.
C24_StateAgreesWithValue ==
    \A which \in Timers :
        (interpreter[which].state = "Zero") <=> (interpreter[which].value = 0)

\* C15: a decrement() or reset() of one timer changes nothing of the
\* interpreter but that timer; and a step() changes a timer only by
\* executing SetDelayTimer (the value of the delay timer becomes Vx) or
\* SetSoundTimer (the value of the sound timer becomes Vx): it never
\* decrements a timer and never touches the other one.
C15_TimersIndependent ==
    [][/\ \A which \in Timers :
             (DecrementCall(which) \/ ResetCall(which)) =>
                [interpreter' EXCEPT ![which] = interpreter[which]] = interpreter
       /\ StepCall =>
             /\ interpreter'.delay_timer # interpreter.delay_timer =>
                   /\ StepInstruction(interpreter).variant = "SetDelayTimer"
                   /\ interpreter'.delay_timer =
                         [interpreter.delay_timer EXCEPT !.value =
                             Reg(interpreter, StepInstruction(interpreter).register)]
             /\ interpreter'.sound_timer # interpreter.sound_timer =>
                   /\ StepInstruction(interpreter).variant = "SetSoundTimer"
                   /\ interpreter'.sound_timer =
                         [interpreter.sound_timer EXCEPT !.value =
                             Reg(interpreter, StepInstruction(interpreter).register)]]_vars

\* The delay timer, set to 1, has been decremented to Zero; the sound timer
\* has been reset and decremented once; then SetSoundTimer has set the sound
\* timer to 3 and left the delay timer as it was.
C15_Witness ==
    /\ last.call = "step" /\ last.variant = "SetSoundTimer"
    /\ interpreter.sound_timer.value = 3
    /\ interpreter.delay_timer = [value |-> 0, state |-> "Zero"]
    /\ interpreter.variable_registers[2] = 3

(***************************************************************************)
(* The arithmetic and shift instructions, each executed once on a machine  *)
(* whose registers Vx and Vy hold values drawn around the ends and the     *)
(* middle of the byte range.                                               *)
(***************************************************************************)
AluValues == {0, 1, 5, 9, 127, 128, 129, 254, 255}

\* The register pairs (x, y): distinct, the flag register as x or as y, and
\* the same register twice.
AluRegisterPairs == {<<0, 1>>, <<15, 1>>, <<1, 15>>, <<2, 2>>, <<15, 15>>}

AluInstructions ==
    {IRegReg(v, pair[1], pair[2]) :
        v \in {"AddWithVariable", "SubWithVariable", "SubWithVariableNot"},
        pair \in AluRegisterPairs}
    \cup
    {IShift(v, pair[1], pair[2]) :
        v \in {"ShiftRight", "ShiftLeft"}, pair \in AluRegisterPairs}

\* The machine as constructed, with register_x and register_y of the pair
\* loaded (the second write wins when they are the same register).
InitAlu ==
    /\ modern \in BOOLEAN
    /\ overflow_checks = TRUE
    /\ program = << >>
    /\ index_ideal = 0
    /\ steps = 0
    /\ events = 0
    /\ last = [call |-> "new", path |-> "", word |-> -1, variant |-> "none"]
    /\ event_since_wait = FALSE
    /\ calls = 0
    /\ returns = 0
    /\ timer_runs = no_timer_runs
    /\ opcode = 0
    /\ decoded = NoInstruction
    /\ \E pair \in AluRegisterPairs, a \in AluValues, b \in AluValues :
          /\ interpreter = SetReg(SetReg(new, pair[1], a), pair[2], b)
          /\ instruction_in \in
                {i \in AluInstructions :
                    /\ i.register_x = pair[1]
                    /\ "register_y" \in DOMAIN i => i.register_y = pair[2]}
    /\ initial = interpreter

\* execute(instruction_in), once.
Execute ==
    /\ last.call = "new"
    /\ \E random_byte \in RandomDraws(instruction_in) :
          interpreter' = execute(interpreter, instruction_in, random_byte)
    /\ last' = [call |-> "execute", path |-> "", word |-> -1,
                variant |-> instruction_in.variant]
    /\ UNCHANGED <<modern, overflow_checks, program, index_ideal, steps, events,
                   event_since_wait, calls, returns, initial, timer_runs, codec_vars>>

SpecAlu == InitAlu /\ [][Execute]_vars

\* The transition executes an instruction of the variant.
Executes(variant) == last'.call = "execute" /\ last'.variant = variant

Vx == interpreter.variable_registers[instruction_in.register_x]
Vy == interpreter.variable_registers[instruction_in.register_y]
VxAfter == interpreter'.variable_registers[instruction_in.register_x]
VFAfter == interpreter'.variable_registers[15]

\* C16: AddWithVariable{x, y} leaves VF = 1 if Vx + Vy > 255 and VF = 0
\* otherwise, and Vx = (Vx + Vy) mod 256; when x is 0xF the flag write wins:
\* VF holds the carry and not the sum.
C16_AddWithVariable ==
    [][Executes("AddWithVariable") =>
          /\ VFAfter = IF Vx + Vy > 255 THEN 1 ELSE 0
          /\ instruction_in.register_x # 15 =>
                VxAfter = IF Vx + Vy > 255 THEN Vx + Vy - 256 ELSE Vx + Vy]_vars

\* V0 = 0xFF and V1 = 0x01 have been added: V0 = 0x00 and VF = 1.
C16_Witness ==
    /\ last.call = "execute"
    /\ instruction_in = IRegReg("AddWithVariable", 0, 1)
    /\ initial.variable_registers[0] = 255
    /\ initial.variable_registers[1] = 1
    /\ interpreter.variable_registers[0] = 0
    /\ interpreter.variable_registers[15] = 1

\* C17: SubWithVariable{x, y} leaves Vx = (Vx - Vy) mod 256 and VF = 1 iff
\* Vx >= Vy before; SubWithVariableNot{x, y} leaves Vx = (Vy - Vx) mod 256
\* and VF = 1 iff Vy >= Vx before; equal operands give VF = 1.  (Vx is
\* compared for x other than 0xF, where the flag is what VF holds.)
C17_SubWithVariable ==
    [][/\ Executes("SubWithVariable") =>
             /\ VFAfter = IF Vx >= Vy THEN 1 ELSE 0
             /\ instruction_in.register_x # 15 =>
                   VxAfter = IF Vx >= Vy THEN Vx - Vy ELSE Vx - Vy + 256
       /\ Executes("SubWithVariableNot") =>
             /\ VFAfter = IF Vy >= Vx THEN 1 ELSE 0
             /\ instruction_in.register_x # 15 =>
                   VxAfter = IF Vy >= Vx THEN Vy - Vx ELSE Vy - Vx + 256]_vars

\* V0 = 0x05 and V1 = 0x09 have been subtracted: V0 = 0xFC and VF = 0.
C17_Witness ==
    /\ last.call = "execute"
    /\ instruction_in = IRegReg("SubWithVariable", 0, 1)
    /\ initial.variable_registers[0] = 5
    /\ initial.variable_registers[1] = 9
    /\ interpreter.variable_registers[0] = 252
    /\ interpreter.variable_registers[15] = 0

\* The value the shift instructions shift: Vy in the legacy build, Vx in the
\* modern build.
Shifted == IF modern THEN Vx ELSE Vy

\* C18: ShiftRight leaves VF = bit 0 of the shifted value and Vx = that value
\* shifted right by one; ShiftLeft leaves VF = bit 7 and Vx = the value
\* shifted left by one, truncated to 8 bits; the shifted value is Vy in the
\* legacy build and Vx in the modern build; no register other than Vx and VF
\* changes, so Vy is not modified.
C18_Shift ==
    [][/\ Executes("ShiftRight") =>
             /\ VFAfter = Shifted % 2
             /\ instruction_in.register_x # 15 => VxAfter = Shifted \div 2
       /\ Executes("ShiftLeft") =>
             /\ VFAfter = Shifted \div 128
             /\ instruction_in.register_x # 15 => VxAfter = (Shifted * 2) % 256
       /\ (Executes("ShiftRight") \/ Executes("ShiftLeft")) =>
             \A r \in 0 .. 14 :
                r # instruction_in.register_x =>
                   interpreter'.variable_registers[r] = interpreter.variable_registers[r]]_vars

\* The legacy ShiftLeft of V0 from V1 = 0x81: V0 = 0x02, VF = 1 and V1 is
\* still 0x81.
C18_Witness ==
    /\ ~modern
    /\ last.call = "execute"
    /\ instruction_in = IShift("ShiftLeft", 0, 1)
    /\ initial.variable_registers[1] = 129
    /\ interpreter.variable_registers[0] = 2
    /\ interpreter.variable_registers[15] = 1
    /\ interpreter.variable_registers[1] = 129

(***************************************************************************)
(* StoreRegisters{n}, then the registers zeroed, then LoadIntoRegisters{n}, *)
(* on a machine whose registers and index register are loaded; before the  *)
(* load the index register may be pointed again at the address the store   *)
(* started at.                                                             *)
(***************************************************************************)
RegisterSeeds == {1, 100, 250}

RegisterFiles == {[r \in 0 .. 15 |-> (seed + (17 * r)) % U8] : seed \in RegisterSeeds}

\* Start addresses: the font, below the program, free memory, 16 bytes and
\* 1 byte before the end of memory.
StoreAddresses == {0, 504, 768, 4080, 4095}

InitStoreLoad ==
    /\ modern \in BOOLEAN
    /\ overflow_checks \in BOOLEAN
    /\ program = << >>
    /\ index_ideal = 0
    /\ steps = 0
    /\ events = 0
    /\ last = [call |-> "new", path |-> "", word |-> -1, variant |-> "none"]
    /\ event_since_wait = FALSE
    /\ calls = 0
    /\ returns = 0
    /\ timer_runs = no_timer_runs
    /\ opcode = 0
    /\ decoded = NoInstruction
    /\ \E registers \in RegisterFiles, address \in StoreAddresses :
          interpreter = [new EXCEPT !.variable_registers = registers,
                                    !.index_register = address]
    /\ \E n \in Nibble :
          instruction_in = [variant |-> "StoreRegisters", up_to_register |-> n]
    /\ initial = interpreter

ScenarioStep(from, call, after) ==
    /\ last.call \in from
    /\ ~Panicked(interpreter)
    /\ interpreter' = after
    /\ last' = [last EXCEPT !.call = call]
    /\ UNCHANGED <<modern, overflow_checks, program, index_ideal, steps, events,
                   event_since_wait, calls, returns, initial, timer_runs, codec_vars>>

\* execute(StoreRegisters{n})
Store == ScenarioStep({"new"}, "store", execute(interpreter, instruction_in, 0))

\* The word 6r00 of SetWithByte{r, 0}.
SetWithByteWord(register) == 24576 + (256 * register)

\* The register the next SetWithByte{r, 0} clears: V0 after the store, then
\* the one after the register cleared last (16 when all are cleared).
FreshRegister ==
    IF last.call = "store" THEN 0 ELSE ((last.word - 24576) \div 256) + 1

\* The registers V0..V15 have all been cleared since the store.
FreshDone == last.word = SetWithByteWord(15)

\* execute(SetWithByte{r, 0}), one call for one register: the registers are
\* made fresh by sixteen of them, from V0 to V15.
Fresh ==
    /\ last.call \in {"store", "fresh"}
    /\ ~Panicked(interpreter)
    /\ FreshRegister <= 15
    /\ interpreter' = execute(interpreter, IRegByte("SetWithByte", FreshRegister, 0), 0)
    /\ last' = [last EXCEPT !.call = "fresh", !.word = SetWithByteWord(FreshRegister)]
    /\ UNCHANGED <<modern, overflow_checks, program, index_ideal, steps, events,
                   event_since_wait, calls, returns, initial, timer_runs, codec_vars>>

\* SetIndexWithAddress{the address the store started at}
Repoint ==
    /\ FreshDone
    /\ ScenarioStep({"fresh"}, "repoint",
                    execute(interpreter,
                            IAddr("SetIndexWithAddress", initial.index_register), 0))

\* execute(LoadIntoRegisters{n})
Load ==
    /\ FreshDone
    /\ ScenarioStep({"fresh", "repoint"}, "load",
                    execute(interpreter,
                            [variant |-> "LoadIntoRegisters",
                             up_to_register |-> instruction_in.up_to_register], 0))

NextStoreLoad == Store \/ Fresh \/ Repoint \/ Load

SpecStoreLoad == InitStoreLoad /\ [][NextStoreLoad]_vars

\* The transition is the load, and the cells I .. I+n of the store are in
\* range.
LoadInRange ==
    /\ last'.call = "load" /\ last.call # "load"
    /\ initial.index_register + instruction_in.up_to_register <= 4095

\* After the load: V0..Vn are as they were before the store, and I is the
\* start address in the modern build and start + n + 1 in the legacy build.
RoundTripped ==
    /\ ~Panicked(interpreter')
    /\ \A r \in 0 .. instruction_in.up_to_register :
          interpreter'.variable_registers[r] = initial.variable_registers[r]
    /\ interpreter'.index_register =
          IF modern THEN initial.index_register
          ELSE initial.index_register + instruction_in.up_to_register + 1

\* C19 (as claimed): StoreRegisters{n}, fresh registers, LoadIntoRegisters{n}
\* with the cells in range: V0..Vn are reproduced, I is unchanged in the
\* modern build and advanced by n + 1 in the legacy build.
C19_StoreLoadRoundTripAll ==
    [][(LoadInRange /\ last.call = "fresh") => RoundTripped]_vars

\* C19 (amended): the same when the load starts at the address the store
\* started at: in the modern build the store has restored I, in the legacy
\* build the store has left I advanced by n + 1 and I is pointed again at the
\* start address before the load.
C19_StoreLoadRoundTrip ==
    [][(LoadInRange /\ interpreter.index_register = initial.index_register)
        => RoundTripped]_vars

\* Legacy build: V0..V15 stored at 0xFF0, registers zeroed, I pointed again
\* at 0xFF0, V0..V15 loaded: V15 is back and I is 0x1000.
C19_Witness ==
    /\ ~modern
    /\ last.call = "load"
    /\ instruction_in.up_to_register = 15
    /\ initial.index_register = 4080
    /\ initial.variable_registers[15] # 0
    /\ interpreter.variable_registers = initial.variable_registers
    /\ interpreter.index_register = 4096

(***************************************************************************)
(* Draw{x, y, n}, executed once and then once more, on a machine whose     *)
(* registers Vx and Vy hold coordinates in and beyond the screen and whose *)
(* index register points at the glyph of 0 in the font or at rows of       *)
(* 0b11111111 loaded as the program; the display is blank or lit in the    *)
(* corners.                                                                *)
(***************************************************************************)
program_sprites == [i \in 1 .. 16 |-> 255]

DrawColumns == {0, 2, 57, 62, 63, 126, 255}
DrawRows == {0, 28, 31, 63, 255}
DrawHeights == {0, 1, 2, 5, 8, 15}
DrawRegisterPairs == {<<0, 1>>, <<2, 2>>, <<15, 1>>}
SpriteAddresses == {0, ProgramStart}

\* The display before the first draw: blank, or with the pixels lit that
\* earlier draws have left in the four corners.
LitCorners == {pixel_index(x, y) : x \in {0, 1, 2, 62, 63}, y \in {0, 1, 30, 31}}

InitialScreens == {screen_new, LitCorners}

InitDraw ==
    /\ modern \in BOOLEAN
    /\ overflow_checks = TRUE
    /\ program = program_sprites
    /\ index_ideal = 0
    /\ steps = 0
    /\ events = 0
    /\ last = [call |-> "new", path |-> "", word |-> -1, variant |-> "none"]
    /\ event_since_wait = FALSE
    /\ calls = 0
    /\ returns = 0
    /\ timer_runs = no_timer_runs
    /\ opcode = 0
    /\ decoded = NoInstruction
    /\ \E pair \in DrawRegisterPairs, column \in DrawColumns, row \in DrawRows,
          address \in SpriteAddresses, n \in DrawHeights, screen \in InitialScreens :
          /\ interpreter =
                [SetReg(SetReg(new, pair[2], row), pair[1], column)
                    EXCEPT !.index_register = address, !.screen = screen]
          /\ instruction_in = [variant |-> "Draw", register_x |-> pair[1],
                               register_y |-> pair[2], n |-> n]
    /\ initial = interpreter

\* execute(Draw{x, y, n})
DrawOnce == ScenarioStep({"new"}, "draw", execute(interpreter, instruction_in, 0))

\* execute(Draw{x, y, n}) on the display the first draw has left.
DrawAgain == ScenarioStep({"draw"}, "redraw", execute(interpreter, instruction_in, 0))

NextDraw == DrawOnce \/ DrawAgain

SpecDraw == InitDraw /\ [][NextDraw]_vars

\* The transition executes the Draw.
DrawCall == last'.call \in {"draw", "redraw"} /\ last'.call # last.call

\* The pixels whose state the transition changes.
ChangedPixels ==
    (interpreter.screen \ interpreter'.screen)
        \cup (interpreter'.screen \ interpreter.screen)

Min(a, b) == IF a <= b THEN a ELSE b

\* The start position of the Draw about to be executed.
DrawX0 == interpreter.variable_registers[instruction_in.register_x] % 64
DrawY0 == interpreter.variable_registers[instruction_in.register_y] % 32

\* C20: Draw{x, y, n} clips and never wraps: with x0 = Vx mod 64 and
\* y0 = Vy mod 32, every pixel whose state changes lies in the columns
\* x0 .. min(x0+7, 63) and the rows y0 .. min(y0+n-1, 31); and a single row
\* 0b11111111 toggles exactly the pixels of row y0 in those columns (two
\* pixels at x0 = 62).
C20_DrawClips ==
    [][DrawCall =>
          /\ \A pixel \in ChangedPixels :
                /\ pixel % 64 >= DrawX0
                /\ pixel % 64 <= Min(DrawX0 + 7, 63)
                /\ pixel \div 64 >= DrawY0
                /\ pixel \div 64 <= Min(DrawY0 + instruction_in.n - 1, 31)
          /\ (/\ instruction_in.n = 1
              /\ ram_index(interpreter, interpreter.index_register) = 255)
             => ChangedPixels =
                   {(DrawY0 * 64) + column : column \in DrawX0 .. Min(DrawX0 + 7, 63)}]_vars

\* The row 0b11111111 drawn at x = 62, y = 0 with n = 1 on the blank display:
\* the pixels of the columns 62 and 63 of row 0 are lit and no other.
C20_Witness ==
    /\ last.call = "draw"
    /\ instruction_in.n = 1
    /\ initial.screen = {}
    /\ initial.variable_registers[instruction_in.register_x] = 62
    /\ initial.variable_registers[instruction_in.register_y] = 0
    /\ initial.index_register = ProgramStart
    /\ interpreter.screen = {62, 63}

\* The on-screen pixels covered by a 1 bit of the n sprite rows at I .. I+n-1
\* of the Draw about to be executed, the most significant bit leftmost.
CoveredPixels ==
    {((DrawY0 + at[1]) * 64) + DrawX0 + at[2] :
        at \in {rb \in (0 .. instruction_in.n - 1) \X (0 .. 7) :
                   /\ DrawY0 + rb[1] <= 31
                   /\ DrawX0 + rb[2] <= 63
                   /\ (ram_index(interpreter, interpreter.index_register + rb[1])
                          \div (2 ^ (7 - rb[2]))) % 2 = 1}}

\* C21: Draw{x, y, n} toggles every on-screen pixel covered by a 1 bit of the
\* sprite rows exactly once and leaves every other pixel; afterwards VF = 1
\* if one of the covered pixels was lit before (the toggle turned it off)
\* and VF = 0 otherwise, also when n = 0.
C21_DrawToggles ==
    [][DrawCall =>
          /\ interpreter'.screen =
                (interpreter.screen \ CoveredPixels)
                    \cup (CoveredPixels \ interpreter.screen)
          /\ interpreter'.variable_registers[15] =
                IF CoveredPixels \cap interpreter.screen # {} THEN 1 ELSE 0]_vars

\* Draw{F, 1, 1} of the row 0b11111111 with VF = 2 and V1 = 0, twice on the
\* blank display: the first draw lights the columns 2..9 and clears VF, so
\* the second draw starts at column 0: it turns the columns 2..7 off, lights
\* 0 and 1, and reports the collision.
C21_Witness ==
    /\ last.call = "redraw"
    /\ instruction_in = [variant |-> "Draw", register_x |-> 15, register_y |-> 1, n |-> 1]
    /\ initial.screen = {}
    /\ initial.variable_registers[15] = 2
    /\ initial.variable_registers[1] = 0
    /\ initial.index_register = ProgramStart
    /\ interpreter.screen = {0, 1, 8, 9}
    /\ interpreter.variable_registers[15] = 1

(***************************************************************************)
(* Properties of the key tests and of Call and Return.                     *)
(***************************************************************************)
\* The key number the key test about to be executed reads: Vx as the head of
\* step has left it.
TestedKey == Reg(step_head(interpreter), StepInstruction(interpreter).register)

\* C22: a step() that executes SkipKey{x} on a key number Vx below 16
\* advances the program counter by 4 when key Vx is Pressed and by 2
\* otherwise; SkipNotKey{x} advances it by 4 when key Vx is not Pressed and
\* by 2 otherwise; an AlreadyPressed key is not Pressed for both; neither
\* changes the state of a key.
C22_SkipKey ==
    [][(/\ StepCall
        /\ StepInstruction(interpreter).variant \in {"SkipKey", "SkipNotKey"}
        /\ TestedKey < 16)
       => LET pressed == interpreter.input_handler.keys_state[TestedKey] = "Pressed"
              skips == IF StepInstruction(interpreter).variant = "SkipKey"
                       THEN pressed ELSE ~pressed
          IN  /\ interpreter'.program_counter =
                    interpreter.program_counter + (IF skips THEN 4 ELSE 2)
              /\ interpreter'.input_handler.keys_state =
                    interpreter.input_handler.keys_state]_vars

\* SkipKey V3 has tested key 3 in the state AlreadyPressed and has not
\* skipped: the program counter is at the SkipNotKey that follows it.
C22_Witness ==
    /\ last.call = "step" /\ last.variant = "SkipKey"
    /\ interpreter.variable_registers[3] = 3
    /\ interpreter.input_handler.keys_state[3] = "AlreadyPressed"
    /\ interpreter.program_counter = ProgramStart + 6

\* C23: a step() that executes Call{address} pushes the address of the
\* instruction after the Call (the Call's address + 2) on top of the stack
\* and sets the program counter to address; a step() that executes Return on
\* a stack that is not empty sets the program counter to the top of the
\* stack, the address pushed by the latest Call not yet returned from, and
\* removes it, leaving the entries below as they are.
C23_CallReturnLifo ==
    [][/\ (StepCall /\ StepInstruction(interpreter).variant = "Call") =>
             /\ interpreter'.stack =
                   Append(interpreter.stack, interpreter.program_counter + 2)
             /\ interpreter'.program_counter = StepInstruction(interpreter).address
       /\ (/\ StepCall
           /\ StepInstruction(interpreter).variant = "Return"
           /\ Len(interpreter.stack) > 0) =>
             /\ interpreter'.program_counter = interpreter.stack[Len(interpreter.stack)]
             /\ interpreter'.stack =
                   SubSeq(interpreter.stack, 1, Len(interpreter.stack) - 1)]_vars

\* Three nested calls, from 0x200, 0x204 and 0x208, and the return from the
\* innermost: the program counter is 0x20A, after the third Call, and the
\* return addresses of the first two are still on the stack.
C23_Witness ==
    /\ last.call = "step" /\ last.variant = "Return"
    /\ calls = 3 /\ returns = 1
    /\ interpreter.program_counter = 522
    /\ interpreter.stack = << 514, 518 >>

(***************************************************************************)
(* Properties of a Draw executed twice, and of the font.                   *)
(***************************************************************************)
\* The transition executes the Draw a second time, on the display, the
\* registers, the index register and the memory the first one has left.
RedrawCall == last.call = "draw" /\ last'.call = "redraw"

\* C25 (as claimed): executing the same Draw{x, y, n} twice in a row, x and y
\* other than 0xF, restores the display to what it was before the first
\* draw, and the second draw sets VF to 1 whenever a 1 bit of the sprite
\* lands on the screen.
C25_DrawTwiceRestoresAlwaysFlags ==
    [][(/\ RedrawCall
        /\ instruction_in.register_x # 15
        /\ instruction_in.register_y # 15) =>
          /\ interpreter'.screen = initial.screen
          /\ CoveredPixels # {} => interpreter'.variable_registers[15] = 1]_vars

\* C25: executing the same Draw{x, y, n} twice in a row, x and y other than
\* 0xF, restores the display to what it was before the first draw, and the
\* second draw sets VF to 1 exactly when a 1 bit of the sprite lands on a
\* pixel of the screen that was off before the first draw, and to 0
\* otherwise.
C25_DrawTwiceRestores ==
    [][(/\ RedrawCall
        /\ instruction_in.register_x # 15
        /\ instruction_in.register_y # 15) =>
          /\ interpreter'.screen = initial.screen
          /\ interpreter'.variable_registers[15] =
                IF CoveredPixels \ initial.screen # {} THEN 1 ELSE 0]_vars

\* Draw{2, 2, 15} at column 57 of row 0 with I = 0, the first 15 bytes of the
\* font, on a display lit in the corners, executed twice: the display is
\* again the one lit in the corners and VF is 1.
C25_Witness ==
    /\ last.call = "redraw"
    /\ instruction_in = [variant |-> "Draw", register_x |-> 2, register_y |-> 2, n |-> 15]
    /\ initial.variable_registers[2] = 57
    /\ initial.index_register = 0
    /\ initial.screen = LitCorners
    /\ interpreter.screen = LitCorners
    /\ interpreter.variable_registers[15] = 1

\* The digits, the registers that hold the digit, and the positions of the
\* glyph: the top left corner, the middle, and the last columns and rows in
\* which a glyph 4 pixels wide and 5 high still fits.
FontDigits == 0 .. 15
DigitRegisters == {0, 3}
GlyphColumns == {0, 30, 60}
GlyphRows == {0, 13, 27}

\* Draw{1, 2, 5}: the 5 rows of a glyph at column V1 of row V2.
DrawGlyphInstruction == [variant |-> "Draw", register_x |-> 1, register_y |-> 2, n |-> 5]

\* The machine as constructed with an empty program, the digit in Vx and the
\* position in V1 and V2, about to execute SetIndexWithSpriteAddress{x}.
InitFont ==
    /\ modern \in BOOLEAN
    /\ overflow_checks = TRUE
    /\ program = << >>
    /\ index_ideal = 0
    /\ steps = 0
    /\ events = 0
    /\ last = [call |-> "new", path |-> "", word |-> -1, variant |-> "none"]
    /\ event_since_wait = FALSE
    /\ calls = 0
    /\ returns = 0
    /\ timer_runs = no_timer_runs
    /\ opcode = 0
    /\ decoded = NoInstruction
    /\ \E register \in DigitRegisters, digit \in FontDigits,
          column \in GlyphColumns, row \in GlyphRows :
          /\ interpreter = SetReg(SetReg(SetReg(new, 1, column), 2, row), register, digit)
          /\ instruction_in = IReg("SetIndexWithSpriteAddress", register)
    /\ initial = interpreter

\* execute(SetIndexWithSpriteAddress{x})
SetSprite == ScenarioStep({"new"}, "sprite", execute(interpreter, instruction_in, 0))

\* execute(Draw{1, 2, 5}) at the index register SetIndexWithSpriteAddress set.
DrawGlyph == ScenarioStep({"sprite"}, "glyph", execute(interpreter, DrawGlyphInstruction, 0))

NextFont == SetSprite \/ DrawGlyph

SpecFont == InitFont /\ [][NextFont]_vars

\* The display after SetIndexWithSpriteAddress{x} and Draw{1, 2, 5} executed
\* on the machine as it started, with the digit in Vx.
GlyphScreen(digit) ==
    execute(execute(SetReg(initial, instruction_in.register, digit), instruction_in, 0),
            DrawGlyphInstruction, 0).screen

\* The digit the behaviour started with.
Digit == initial.variable_registers[instruction_in.register]

\* C26 (as claimed): for every hex digit d, SetIndexWithSpriteAddress with
\* Vx = d sets I to 5 * d, the start of a 5-byte glyph inside the font area
\* 0x000..0x04F, and the glyph drawn for d differs from the glyph drawn in
\* the same place for every other digit.
C26_GlyphsDistinct ==
    /\ [][last'.call = "sprite" =>
             /\ interpreter'.index_register = 5 * Digit
             /\ interpreter'.index_register + 4 <= 79]_vars
    /\ [](last.call = "glyph" =>
             \A other \in FontDigits \ {Digit} : interpreter.screen # GlyphScreen(other))

====
